---- MODULE Spec2Model ----
(***************************************************************************)
(* Incident-response workflow of app/langgraph_orchestrator, driven by the *)
(* REST endpoints (app/api/workflow_endpoints.py), the MCP tools           *)
(* (mcp_server/langgraph_server.py) and the direct invoke(None) resume of  *)
(* the test scripts.                                                       *)
(*                                                                         *)
(* The graph is compiled with a checkpointer and                           *)
(* interrupt_before=[review_diagnosis, review_commands].  One superstep of *)
(* the compiled graph is one step of the model: it runs the node named by  *)
(* `next`, evaluates the outgoing edge on the node's result and saves a    *)
(* checkpoint.  update_state writes its values as the node that ran last   *)
(* and re-evaluates that node's outgoing edge on the updated values.       *)
(*                                                                         *)
(* Abstractions: timestamps, durations and free text are left out; a       *)
(* feedback text is one of three tokens per gate (Python None, a text     *)
(* without cue, a text with the cue of the gate); confidences are          *)
(* percentages.  Every state key is a last-value channel (IncidentState    *)
(* declares no reducer), "unset" stands for a key that was never written.  *)
(***************************************************************************)
EXTENDS Integers, Sequences, FiniteSets, TLC

VARIABLES
    cp,         \* the persisted checkpoint of the incident's thread
    loop,       \* the state of the run in flight (start or resume)
    running,    \* TRUE while an invoke is in flight
    resuming,   \* TRUE until the first superstep of an invoke(None) ran
    steps,      \* supersteps run by the invoke in flight
    ncalls,     \* calls the clients still make for this incident
    last,       \* the last call made and what it returned
    workDone,   \* observation: work-step executions since the last start
    routed,     \* observation: gate routings evaluated since the last start
    interrupts, \* observation: times a run stopped before a gate since the last start
    rejected,   \* observation: a rejection without retry cue was submitted at
                \* review_diagnosis since the last start
    crashed,    \* observation: a run was interrupted since the last start
    inbox,      \* requests the server has received and not yet handled
    store,      \* the checkpointer: thread id -> checkpoint last written for it
    tid,        \* the thread id (incident id) of the call being served
    args,       \* the arguments of a call of one of the engines' functions
    out         \* what that call returned

vars ==
    <<cp, loop, running, resuming, steps, ncalls, last, workDone, routed, interrupts,
      rejected, crashed, inbox, store, tid, args, out>>

(* what the routing functions leave alone *)
server == <<inbox, store, tid, args, out>>

(* the variables of the workflow and of its servers *)
workflow ==
    <<cp, loop, running, resuming, steps, ncalls, last, workDone, routed, interrupts,
      rejected, crashed, inbox, store, tid>>

----------------------------------------------------------------------------
(* Bounds *)

(* calls made for the incident *)
MaxCalls == 3

(* calls made for the incident when the clients only deal with the         *)
(* diagnosis (RetrySpec)                                                   *)
MaxRetryCalls == 4

(* invoke's recursion limit (supersteps of one run).  No caller passes     *)
(* one, so the library default applies; the model scales it down to keep   *)
(* the execute retry loop short.                                           *)
RecursionLimit == 5

(* words of a feedback text handed to a routing function *)
MaxWords == 2

(* playbooks in a catalog other than the shipped one *)
MaxCatalog == 3

(* largest top_n asked for *)
MaxTopN == 3

(* calls of the policy check on the same inputs *)
MaxChecks == 2

(* candidates handed to the policy gate *)
MaxCandidates == 2

----------------------------------------------------------------------------
(* The graph *)

END == "__end__"

WorkNodes == {"diagnose", "recommend", "generate_commands", "execute", "generate_rca"}

GateNodes == {"review_diagnosis", "review_commands"}

InterruptBefore == {"review_diagnosis", "review_commands"}

(* A feedback value is Python None, a key that was never written, or a     *)
(* text.  A text is a sequence of words; a word is one of the cue words of *)
(* routing.py or another word, written in lower or in upper case.          *)
Bases == {"retry", "again", "modify", "change", "different", "fine"}

Words == [base : Bases, upper : BOOLEAN]

Word(base) == [base |-> base, upper |-> FALSE]

None == [kind |-> "None", words |-> << >>]

Unset == [kind |-> "unset", words |-> << >>]

Text(words) == [kind |-> "text", words |-> words]

(* state.get(key, ""): the default applies only to a key never written *)
get(feedback) == IF feedback.kind = "unset" THEN Text(<< >>) ELSE feedback

(* str.lower() *)
lower(words) == [i \in DOMAIN words |-> [words[i] EXCEPT !.upper = FALSE]]

(* cue in text *)
in(cue, words) == \E i \in DOMAIN words : words[i] = Word(cue)

(* feedback of an approval request (ApprovalRequest.feedback is            *)
(* Optional[str] = None): None, a text without the cue of the gate it is   *)
(* submitted for, a text with that cue                                     *)
DiagnosisFeedback == {None, Text(<<Word("fine")>>), Text(<<Word("retry")>>)}

CommandsFeedback == {None, Text(<<Word("fine")>>), Text(<<Word("modify")>>)}

OracleConfidence == {60, 90}

NoDiagnosis == [kind |-> "unset", confidence |-> 0]

----------------------------------------------------------------------------
(* state.py *)

InitialKeys ==
    {"diagnosis_approved", "commands_approved", "approvals", "history",
     "errors", "current_step", "workflow_status", "retry_count"}

create_initial_state ==
    [ diagnosis            |-> NoDiagnosis,
      diagnosis_approved   |-> FALSE,
      diagnosis_feedback   |-> Unset,
      recommendations      |-> "unset",
      selected_playbook_id |-> "unset",
      commands             |-> "unset",
      commands_approved    |-> FALSE,
      commands_feedback    |-> Unset,
      execution_status     |-> "unset",
      rca_report           |-> "unset",
      current_step         |-> "start",
      workflow_status      |-> "running",
      retry_count          |-> 0,
      approvals            |-> << >>,
      history              |-> << >>,
      errors               |-> << >> ]

add_history_entry(s, step) ==
    [s EXCEPT !.history = Append(@, step)]

add_error(s, step, has_attempt, retry_attempt) ==
    [s EXCEPT !.errors = Append(@, [step |-> step,
                                    has_attempt |-> has_attempt,
                                    retry_attempt |-> retry_attempt])]

----------------------------------------------------------------------------
(* nodes.py: each node as a function of the state and of the outcome of    *)
(* its try block (kind "raise" when it raises; the diagnosis oracle also   *)
(* returns a confidence)                                                   *)

(* variant whose fallback threshold is 4 failures *)
diagnose_node_fallback_after_four(s, outcome) ==
    LET s1 == [s EXCEPT !.current_step = "diagnose"] IN
    IF outcome.kind # "raise"
    THEN add_history_entry(
             [s1 EXCEPT !.diagnosis = [kind |-> "oracle",
                                       confidence |-> outcome.confidence]],
             "diagnose")
    ELSE LET s2 == add_error(s1, "diagnose", TRUE, s1.retry_count)
             s3 == [s2 EXCEPT !.retry_count = @ + 1]
         IN  IF s3.retry_count >= 4
             THEN [s3 EXCEPT !.diagnosis = [kind |-> "fallback", confidence |-> 30],
                             !.retry_count = 0]
             ELSE s3

diagnose_node(s, outcome) ==
    LET s1 == [s EXCEPT !.current_step = "diagnose"] IN
    IF outcome.kind # "raise"
    THEN add_history_entry(
             [s1 EXCEPT !.diagnosis = [kind |-> "oracle",
                                       confidence |-> outcome.confidence]],
             "diagnose")
    ELSE LET s2 == add_error(s1, "diagnose", TRUE, s1.retry_count)
             s3 == [s2 EXCEPT !.retry_count = @ + 1]
         IN  IF s3.retry_count >= 3
             THEN [s3 EXCEPT !.diagnosis = [kind |-> "fallback", confidence |-> 30],
                             !.retry_count = 0]
             ELSE s3

(* variant whose except branch does not record the error *)
recommend_node_drops_error(s, outcome) ==
    LET s1 == [s EXCEPT !.current_step = "recommend"] IN
    IF outcome.kind # "raise"
    THEN LET s2 == [s1 EXCEPT !.recommendations = "some"]
             s3 == IF s2.diagnosis.confidence > 85
                   THEN [s2 EXCEPT !.selected_playbook_id = "top"]
                   ELSE s2
         IN  add_history_entry(s3, "recommend")
    ELSE [s1 EXCEPT !.recommendations = "empty"]

recommend_node(s, outcome) ==
    LET s1 == [s EXCEPT !.current_step = "recommend"] IN
    IF outcome.kind # "raise"
    THEN LET s2 == [s1 EXCEPT !.recommendations = "some"]
             s3 == IF s2.diagnosis.confidence > 85
                   THEN [s2 EXCEPT !.selected_playbook_id = "top"]
                   ELSE s2
         IN  add_history_entry(s3, "recommend")
    ELSE [add_error(s1, "recommend", FALSE, 0) EXCEPT !.recommendations = "empty"]

generate_commands_node(s, outcome) ==
    LET s1 == [s EXCEPT !.current_step = "generate_commands"]
        noPlaybook == s1.selected_playbook_id = "unset"
                      /\ s1.recommendations # "some"
        s2 == IF s1.selected_playbook_id = "unset" /\ s1.recommendations = "some"
              THEN [s1 EXCEPT !.selected_playbook_id = "top"]
              ELSE s1
    IN  IF outcome.kind # "raise" /\ ~noPlaybook
        THEN add_history_entry([s2 EXCEPT !.commands = s2.selected_playbook_id],
                               "generate_commands")
        ELSE [add_error(s2, "generate_commands", FALSE, 0) EXCEPT !.commands = "error"]

execute_commands_node(s, outcome) ==
    LET s1 == [s EXCEPT !.current_step = "execute"] IN
    IF outcome.kind # "raise"
    THEN add_history_entry([s1 EXCEPT !.execution_status = "success"], "execute")
    ELSE [add_error(s1, "execute", FALSE, 0) EXCEPT !.execution_status = "failed"]

generate_rca_node(s, outcome) ==
    LET s1 == [s EXCEPT !.current_step = "generate_rca"] IN
    IF outcome.kind # "raise"
    THEN add_history_entry([s1 EXCEPT !.rca_report = "report"], "generate_rca")
    ELSE [add_error(s1, "generate_rca", FALSE, 0) EXCEPT !.rca_report = "failed"]

(* variant that records the review in the history *)
human_review_node_records_review(s) ==
    add_history_entry([s EXCEPT !.current_step = "human_review",
                                !.workflow_status = "paused"], "human_review")

human_review_node(s) ==
    [s EXCEPT !.current_step = "human_review", !.workflow_status = "paused"]

Returned == [kind |-> "ok", confidence |-> 0]

Raised == [kind |-> "raise", confidence |-> 0]

Outcomes(node) ==
    CASE node = "diagnose" ->
             {[kind |-> "ok", confidence |-> c] : c \in OracleConfidence} \cup {Raised}
      [] node \in GateNodes -> {Returned}
      [] OTHER -> {Returned, Raised}

RunNode(node, s, outcome) ==
    CASE node = "diagnose"          -> diagnose_node(s, outcome)
      [] node = "recommend"         -> recommend_node(s, outcome)
      [] node = "generate_commands" -> generate_commands_node(s, outcome)
      [] node = "execute"           -> execute_commands_node(s, outcome)
      [] node = "generate_rca"      -> generate_rca_node(s, outcome)
      [] OTHER                      -> human_review_node(s)

----------------------------------------------------------------------------
(* routing.py *)

route_after_diagnosis_review(s) ==
    IF s.diagnosis_approved THEN "approved"
    ELSE IF get(s.diagnosis_feedback).kind = "None" THEN "raise"
    ELSE LET feedback == lower(get(s.diagnosis_feedback).words) IN
         IF in("retry", feedback) \/ in("again", feedback) THEN "retry"
         ELSE "stop"

(* default-allow variant: an unapproved decision without cue goes on *)
route_after_commands_review_default_allow(s) ==
    IF s.commands_approved THEN "execute"
    ELSE IF get(s.commands_feedback).kind = "None" THEN "raise"
    ELSE LET feedback == lower(get(s.commands_feedback).words) IN
         IF in("modify", feedback) \/ in("change", feedback) \/ in("different", feedback)
         THEN "modify"
         ELSE "execute"

route_after_commands_review(s) ==
    IF s.commands_approved THEN "execute"
    ELSE IF get(s.commands_feedback).kind = "None" THEN "raise"
    ELSE LET feedback == lower(get(s.commands_feedback).words) IN
         IF in("modify", feedback) \/ in("change", feedback) \/ in("different", feedback)
         THEN "modify"
         ELSE "stop"

(* state.get("execution_retry_count", 0): IncidentState declares no such   *)
(* key and the routing function is handed a copy of the state, so the     *)
(* assignment state["execution_retry_count"] = retry_count + 1 is never    *)
(* stored and every evaluation reads the default.                          *)
execution_retry_count(s) == 0

route_after_execution(s) ==
    IF s.execution_status = "success" THEN "rca"
    ELSE IF s.execution_status = "partial" THEN "rca"
    ELSE IF s.execution_status = "failed"
         THEN IF execution_retry_count(s) < 2 THEN "retry" ELSE "stop"
    ELSE "rca"

----------------------------------------------------------------------------
(* graph.py: the edges.  Edge(node, s) is the node that follows `node`     *)
(* when its result is s, or "raise" when the routing function raises.      *)

(* variant with the edge recommend -> review_commands *)
Edge_skips_generate_commands(node, s) ==
    CASE node = "__start__" -> "diagnose"
      [] node = "diagnose" -> "review_diagnosis"
      [] node = "review_diagnosis" ->
            LET r == route_after_diagnosis_review(s) IN
            CASE r = "approved" -> "recommend"
              [] r = "retry"    -> "diagnose"
              [] r = "stop"     -> END
              [] OTHER          -> "raise"
      [] node = "recommend" -> "review_commands"
      [] node = "generate_commands" -> "review_commands"
      [] node = "review_commands" ->
            LET r == route_after_commands_review(s) IN
            CASE r = "execute" -> "execute"
              [] r = "modify"  -> "generate_commands"
              [] r = "stop"    -> END
              [] OTHER         -> "raise"
      [] node = "execute" ->
            LET r == route_after_execution(s) IN
            CASE r = "rca"   -> "generate_rca"
              [] r = "retry" -> "execute"
              [] OTHER       -> END
      [] OTHER -> END

Edge(node, s) ==
    CASE node = "__start__" -> "diagnose"
      [] node = "diagnose" -> "review_diagnosis"
      [] node = "review_diagnosis" ->
            LET r == route_after_diagnosis_review(s) IN
            CASE r = "approved" -> "recommend"
              [] r = "retry"    -> "diagnose"
              [] r = "stop"     -> END
              [] OTHER          -> "raise"
      [] node = "recommend" -> "generate_commands"
      [] node = "generate_commands" -> "review_commands"
      [] node = "review_commands" ->
            LET r == route_after_commands_review(s) IN
            CASE r = "execute" -> "execute"
              [] r = "modify"  -> "generate_commands"
              [] r = "stop"    -> END
              [] OTHER         -> "raise"
      [] node = "execute" ->
            LET r == route_after_execution(s) IN
            CASE r = "rca"   -> "generate_rca"
              [] r = "retry" -> "execute"
              [] OTHER       -> END
      [] OTHER -> END

----------------------------------------------------------------------------
(* The compiled graph: checkpoints, update_state, invoke *)

(* the values of a thread nothing was written to: every key is missing;   *)
(* the flags, the counter and the lists hold what the code's              *)
(* state.get(key, default) and `key not in state` branches read            *)
NoValues ==
    [create_initial_state EXCEPT !.current_step = "unset", !.workflow_status = "unset"]

NoCheckpoint ==
    [exists |-> FALSE, st |-> NoValues, next |-> END, as_node |-> "__start__"]

(* incident ids (thread ids of the checkpointer) *)
Ids == {"A", "B"}

(* no function of the engines has been called *)
NoArgs == [fn |-> "none"]

NoResult == [kind |-> "none"]

(* variant that does not key the checkpoint by the thread id *)
put_under_every_id(saved, id, checkpoint) == [i \in DOMAIN saved |-> checkpoint]

(* checkpointer.put / get_tuple with config = {"configurable":            *)
(* {"thread_id": incident_id}}                                             *)
put(saved, id, checkpoint) == [saved EXCEPT ![id] = checkpoint]

get_tuple(saved, id) == saved[id]

(* every operation works on the thread of its incident id: cp is that      *)
(* thread's checkpoint, and what the operation leaves there is what the    *)
(* checkpointer holds for the id                                           *)
Served ==
    /\ store' = put(store, tid, cp')
    /\ UNCHANGED <<inbox, tid, args, out>>

(* variant that saves a checkpoint only when the run stops *)
PutCheckpoint_when_stopping(old, new, node) ==
    IF new.next \in InterruptBefore \cup {END} THEN new ELSE old

(* the checkpoint written after the superstep that ran `node` *)
PutCheckpoint(old, new, node) == new

(* the routing a gate evaluated, as observed by the run *)
Routing(node, s) ==
    IF node = "review_diagnosis"
    THEN {[gate |-> node, result |-> route_after_diagnosis_review(s),
           approved |-> s.diagnosis_approved]}
    ELSE IF node = "review_commands"
    THEN {[gate |-> node, result |-> route_after_commands_review(s),
           approved |-> s.commands_approved]}
    ELSE {}

(* update_state(config, values): the values are written as the node that   *)
(* ran last, whose outgoing edge is evaluated on the updated values.  On a *)
(* thread without checkpoint the values are written as the graph's input   *)
(* node, which creates the thread's first checkpoint.                      *)
UpdateRaises(c, s2) == Edge(c.as_node, s2) = "raise"

UpdateState(c, s2) ==
    [c EXCEPT !.exists = TRUE, !.st = s2, !.next = Edge(c.as_node, s2)]

Call(op, approved, feedback, result) ==
    [op |-> op, approved |-> approved, feedback |-> feedback, result |-> result]

Finish(result) ==
    /\ running' = FALSE
    /\ resuming' = FALSE
    /\ steps' = 0
    /\ last' = [last EXCEPT !.result = result]
    /\ UNCHANGED ncalls

BeginResume(c) ==
    /\ loop' = c
    /\ running' = TRUE
    /\ resuming' = TRUE
    /\ steps' = 0

Idle == ~running /\ ncalls > 0

Made(op, approved, feedback, result) ==
    /\ ncalls' = ncalls - 1
    /\ last' = Call(op, approved, feedback, result)

Init ==
    /\ cp = NoCheckpoint
    /\ loop = NoCheckpoint
    /\ running = FALSE
    /\ resuming = FALSE
    /\ steps = 0
    /\ ncalls = MaxCalls
    /\ last = Call("none", FALSE, Unset, "ok")
    /\ workDone = 0
    /\ routed = {}
    /\ interrupts = 0
    /\ rejected = FALSE
    /\ crashed = FALSE
    /\ inbox = << >>
    /\ store = [i \in Ids |-> NoCheckpoint]
    /\ tid = "A"
    /\ args = NoArgs
    /\ out = NoResult

(* start_workflow / start_incident_workflow: app.invoke(initial_state) *)
Start ==
    /\ Idle
    /\ LET init == create_initial_state
           input == IF cp.exists
                    THEN [k \in DOMAIN init |->
                             IF k \in InitialKeys THEN init[k] ELSE cp.st[k]]
                    ELSE init
           c == [exists |-> TRUE, st |-> input, next |-> "diagnose",
                 as_node |-> "__start__"]
       IN  /\ cp' = c
           /\ loop' = c
    /\ running' = TRUE
    /\ resuming' = FALSE
    /\ steps' = 0
    /\ Made("start", FALSE, Unset, "pending")
    /\ workDone' = 0
    /\ routed' = {}
    /\ interrupts' = 0
    /\ rejected' = FALSE
    /\ crashed' = FALSE
    /\ Served

(* one superstep: the node runs, its edge is evaluated, a checkpoint is saved *)
RunStep ==
    /\ running
    /\ steps < RecursionLimit
    /\ loop.next # END
    /\ loop.next \in InterruptBefore => resuming
    /\ \E outcome \in Outcomes(loop.next) :
          LET node == loop.next
              s2 == RunNode(node, loop.st, outcome)
              new == [exists |-> TRUE, st |-> s2, next |-> Edge(node, s2),
                      as_node |-> node]
          IN  /\ Edge(node, s2) # "raise"
              /\ loop' = new
              /\ cp' = PutCheckpoint(cp, new, node)
              /\ workDone' = IF node \in WorkNodes THEN workDone + 1 ELSE workDone
              /\ routed' = routed \cup Routing(node, s2)
    /\ steps' = steps + 1
    /\ resuming' = FALSE
    /\ UNCHANGED <<running, ncalls, last, interrupts, rejected, crashed>>
    /\ Served

(* the routing function of the gate raises (feedback is None): the         *)
(* superstep fails, nothing is written, invoke raises                      *)
RouteRaises ==
    /\ running
    /\ steps < RecursionLimit
    /\ loop.next \in GateNodes
    /\ resuming
    /\ Edge(loop.next, RunNode(loop.next, loop.st, Returned)) = "raise"
    /\ Finish("error")
    /\ routed' = routed \cup Routing(loop.next, RunNode(loop.next, loop.st, Returned))
    /\ UNCHANGED <<cp, loop, workDone, interrupts, rejected, crashed>>
    /\ Served

(* the run reaches a node of interrupt_before: invoke returns the state *)
FinishInterrupt ==
    /\ running
    /\ steps < RecursionLimit
    /\ loop.next \in InterruptBefore
    /\ ~resuming
    /\ Finish("ok")
    /\ interrupts' = interrupts + 1
    /\ UNCHANGED <<cp, loop, workDone, routed, rejected, crashed>>
    /\ Served

(* the run reaches END: invoke returns the final state *)
FinishEnd ==
    /\ running
    /\ steps < RecursionLimit
    /\ loop.next = END
    /\ Finish("ok")
    /\ UNCHANGED <<cp, loop, workDone, routed, interrupts, rejected, crashed>>
    /\ Served

(* the recursion limit of invoke is reached: GraphRecursionError *)
OutOfSteps ==
    /\ running
    /\ steps >= RecursionLimit
    /\ Finish("error")
    /\ UNCHANGED <<cp, loop, workDone, routed, interrupts, rejected, crashed>>
    /\ Served

(* the process running the invoke is interrupted between two supersteps;   *)
(* the checkpointer keeps what was saved                                   *)
Crash ==
    /\ running
    /\ steps > 0
    /\ Finish("aborted")
    /\ loop' = cp
    /\ crashed' = TRUE
    /\ UNCHANGED <<cp, workDone, routed, interrupts, rejected>>
    /\ Served

DiagnosisOps == {"api_approve_diagnosis", "mcp_approve_diagnosis"}

Submit(op, approved, feedback, s2) ==
    IF UpdateRaises(cp, s2)
    THEN /\ Made(op, approved, feedback, "error")
         /\ UNCHANGED <<cp, loop, running, resuming, steps, routed, rejected>>
    ELSE /\ cp' = UpdateState(cp, s2)
         /\ rejected' = (rejected \/ (/\ op \in DiagnosisOps
                                      /\ cp.next = "review_diagnosis"
                                      /\ ~approved
                                      /\ feedback # Text(<<Word("retry")>>)))
         /\ routed' = routed \cup Routing(cp.as_node, s2)
         /\ IF approved
            THEN /\ BeginResume(UpdateState(cp, s2))
                 /\ Made(op, approved, feedback, "pending")
            ELSE /\ Made(op, approved, feedback, "ok")
                 /\ loop' = UpdateState(cp, s2)
                 /\ UNCHANGED <<running, resuming, steps>>

Approval(step, approved, feedback) ==
    [step |-> step, approved |-> approved, feedback |-> feedback]

(* The four operations that write to the thread of an incident id.  None  *)
(* of them looks whether the thread has a checkpoint; the ...Call          *)
(* definitions are the handlers, the actions of Next are the calls made    *)
(* for an incident whose workflow was started.                             *)

(* POST /api/workflows/{id}/approve-diagnosis *)
ApiApproveDiagnosisCall ==
    /\ Idle
    /\ \E approved \in BOOLEAN, feedback \in DiagnosisFeedback :
          Submit("api_approve_diagnosis", approved, feedback,
                 [cp.st EXCEPT !.diagnosis_approved = approved,
                               !.diagnosis_feedback = feedback,
                               !.approvals = <<Approval("diagnosis", approved, feedback)>>])
    /\ UNCHANGED <<workDone, interrupts, crashed>>
    /\ Served

(* MCP tool approve_diagnosis *)
McpApproveDiagnosisCall ==
    /\ Idle
    /\ \E approved \in BOOLEAN, feedback \in DiagnosisFeedback :
          Submit("mcp_approve_diagnosis", approved, feedback,
                 [cp.st EXCEPT !.diagnosis_approved = approved,
                               !.diagnosis_feedback = feedback])
    /\ UNCHANGED <<workDone, interrupts, crashed>>
    /\ Served

(* POST /api/workflows/{id}/approve-commands and MCP tool approve_commands *)
ApproveCommandsCall ==
    /\ Idle
    /\ \E approved \in BOOLEAN, feedback \in CommandsFeedback :
          Submit("approve_commands", approved, feedback,
                 [cp.st EXCEPT !.commands_approved = approved,
                               !.commands_feedback = feedback,
                               !.approvals = Append(cp.st.approvals,
                                     Approval("commands", approved, feedback))])
    /\ UNCHANGED <<workDone, interrupts, crashed>>
    /\ Served

(* POST /api/workflows/{id}/select-playbook and MCP tool select_playbook *)
SelectPlaybookCall ==
    /\ Idle
    /\ Submit("select_playbook", FALSE, Unset,
              [cp.st EXCEPT !.selected_playbook_id = "manual"])
    /\ UNCHANGED <<workDone, interrupts, crashed>>
    /\ Served

ApiApproveDiagnosis ==
    /\ cp.exists
    /\ ApiApproveDiagnosisCall

McpApproveDiagnosis ==
    /\ cp.exists
    /\ McpApproveDiagnosisCall

ApproveCommands ==
    /\ cp.exists
    /\ ApproveCommandsCall

SelectPlaybook ==
    /\ cp.exists
    /\ SelectPlaybookCall

(* app.invoke(None, config) *)
Resume ==
    /\ Idle
    /\ cp.exists
    /\ BeginResume(cp)
    /\ Made("resume", FALSE, Unset, "pending")
    /\ UNCHANGED <<cp, workDone, routed, interrupts, rejected, crashed>>
    /\ Served

Next ==
    \/ Start
    \/ RunStep
    \/ RouteRaises
    \/ FinishInterrupt
    \/ FinishEnd
    \/ OutOfSteps
    \/ Crash
    \/ ApiApproveDiagnosis
    \/ McpApproveDiagnosis
    \/ ApproveCommands
    \/ SelectPlaybook
    \/ Resume

Spec == Init /\ [][Next]_vars

----------------------------------------------------------------------------
(* Overlapping requests for one incident.  The server receives requests at *)
(* any time; every handler is an `async def` without an await (and the MCP *)
(* tools are plain functions called from one), so the event loop runs one  *)
(* handler from its first line to its return before it starts the next.    *)
(* inbox keeps every request received, with the approvals list the store   *)
(* held when it arrived.                                                   *)

Request(op, approved, feedback, seen) ==
    [op |-> op, approved |-> approved, feedback |-> feedback, seen |-> seen,
     handled |-> FALSE]

Waiting == {i \in DOMAIN inbox : ~inbox[i].handled}

Receive ==
    /\ cp.exists
    /\ Cardinality(Waiting) < ncalls
    /\ \E op \in {"api_approve_diagnosis", "approve_commands"}, approved \in BOOLEAN :
          \E feedback \in (IF op = "approve_commands" THEN CommandsFeedback
                                                       ELSE DiagnosisFeedback) :
             inbox' = Append(inbox, Request(op, approved, feedback, cp.st.approvals))
    /\ UNCHANGED <<cp, loop, running, resuming, steps, ncalls, last, workDone, routed,
                   interrupts, rejected, crashed, store, tid, args, out>>

(* variant that uses the list read when the request arrived *)
get_state_approvals_at_receipt(stored, seen) == seen

(* state = app.get_state(config); state.values.get("approvals", []): read  *)
(* by the handler when it runs                                             *)
get_state_approvals(stored, seen) == stored

HandleApiApproveDiagnosis ==
    /\ Idle
    /\ \E i \in Waiting :
          LET r == inbox[i] IN
          /\ r.op = "api_approve_diagnosis"
          /\ Submit(r.op, r.approved, r.feedback,
                    [cp.st EXCEPT !.diagnosis_approved = r.approved,
                                  !.diagnosis_feedback = r.feedback,
                                  !.approvals =
                                      <<Approval("diagnosis", r.approved, r.feedback)>>])
          /\ inbox' = [inbox EXCEPT ![i].handled = TRUE]
    /\ store' = put(store, tid, cp')
    /\ UNCHANGED <<workDone, interrupts, crashed, tid, args, out>>

HandleApproveCommands ==
    /\ Idle
    /\ \E i \in Waiting :
          LET r == inbox[i]
              current_approvals == get_state_approvals(cp.st.approvals, r.seen)
          IN  /\ r.op = "approve_commands"
              /\ Submit(r.op, r.approved, r.feedback,
                        [cp.st EXCEPT !.commands_approved = r.approved,
                                      !.commands_feedback = r.feedback,
                                      !.approvals = Append(current_approvals,
                                          Approval("commands", r.approved, r.feedback))])
              /\ inbox' = [inbox EXCEPT ![i].handled = TRUE]
    /\ store' = put(store, tid, cp')
    /\ UNCHANGED <<workDone, interrupts, crashed, tid, args, out>>

ConcurrentNext ==
    \/ Start
    \/ RunStep
    \/ RouteRaises
    \/ FinishInterrupt
    \/ FinishEnd
    \/ OutOfSteps
    \/ Receive
    \/ HandleApiApproveDiagnosis
    \/ HandleApproveCommands

ConcurrentSpec == Init /\ [][ConcurrentNext]_vars

----------------------------------------------------------------------------
(* Two incidents.  Calls are served one after the other (see above); a     *)
(* call names its incident id, and the operation works on the checkpoint   *)
(* the checkpointer holds for that id.  The observations are kept for the  *)
(* incident being served and start afresh when the other one is served.    *)

ServeOther ==
    /\ ~running
    /\ \E id \in Ids \ {tid} :
          /\ tid' = id
          /\ cp' = get_tuple(store, id)
    /\ loop' = cp'
    /\ last' = Call("none", FALSE, Unset, "ok")
    /\ workDone' = 0
    /\ routed' = {}
    /\ interrupts' = 0
    /\ rejected' = FALSE
    /\ crashed' = FALSE
    /\ UNCHANGED <<running, resuming, steps, ncalls, inbox, store, args, out>>

(* the operations the two incidents are driven with: start, the approvals *)
(* of the REST server, select-playbook and resume                         *)
IncidentsNext ==
    \/ Start
    \/ RunStep
    \/ RouteRaises
    \/ FinishInterrupt
    \/ FinishEnd
    \/ ApiApproveDiagnosis
    \/ ApproveCommands
    \/ SelectPlaybook
    \/ Resume
    \/ ServeOther

IncidentsSpec == Init /\ [][IncidentsNext]_vars

----------------------------------------------------------------------------
(* The diagnosis phase on its own: the clients start the workflow, decide  *)
(* on the diagnosis and resume; no call is made for the commands.  Every   *)
(* round of the retry loop stops before review_diagnosis, so no run of     *)
(* this phase reaches the recursion limit.                                 *)

RetryInit ==
    /\ cp = NoCheckpoint
    /\ loop = NoCheckpoint
    /\ running = FALSE
    /\ resuming = FALSE
    /\ steps = 0
    /\ ncalls = MaxRetryCalls
    /\ last = Call("none", FALSE, Unset, "ok")
    /\ workDone = 0
    /\ routed = {}
    /\ interrupts = 0
    /\ rejected = FALSE
    /\ crashed = FALSE
    /\ inbox = << >>
    /\ store = [i \in Ids |-> NoCheckpoint]
    /\ tid = "A"
    /\ args = NoArgs
    /\ out = NoResult

RetryNext ==
    \/ Start
    \/ RunStep
    \/ RouteRaises
    \/ FinishInterrupt
    \/ FinishEnd
    \/ Crash
    \/ ApiApproveDiagnosis
    \/ McpApproveDiagnosis
    \/ Resume

RetrySpec == RetryInit /\ [][RetryNext]_vars

----------------------------------------------------------------------------
(* Choosing a playbook by hand: the REST client starts the workflow,        *)
(* approves the diagnosis, selects a playbook while the commands wait for  *)
(* review and decides on the commands (four calls).                         *)

PlaybookNext ==
    \/ Start
    \/ RunStep
    \/ RouteRaises
    \/ FinishInterrupt
    \/ FinishEnd
    \/ ApiApproveDiagnosis
    \/ ApproveCommands
    \/ SelectPlaybook
    \/ Resume

PlaybookSpec == RetryInit /\ [][PlaybookNext]_vars

----------------------------------------------------------------------------
(* Calls for an incident id no workflow was started for *)

UnknownIdCall ==
    /\ ~cp.exists
    /\ \/ ApiApproveDiagnosisCall
       \/ McpApproveDiagnosisCall
       \/ ApproveCommandsCall
       \/ SelectPlaybookCall

UnknownIdNext ==
    \/ Next
    \/ UnknownIdCall

UnknownIdSpec == Init /\ [][UnknownIdNext]_vars

----------------------------------------------------------------------------
(* External cancellation (spec section 5): some party outside the engine   *)
(* marks the incident failed by writing workflow_status "failed" and a     *)
(* terminal error entry to the checkpoint store.  No operation of the      *)
(* program does this; the write is modelled from the spec, everything that *)
(* follows it is the program's.                                            *)

TerminalError == [step |-> "terminal", has_attempt |-> FALSE, retry_attempt |-> 0]

MarkFailed ==
    /\ Idle
    /\ cp.exists
    /\ cp' = [cp EXCEPT !.st.workflow_status = "failed",
                        !.st.errors = Append(@, TerminalError)]
    /\ loop' = cp'
    /\ Made("mark_failed", FALSE, Unset, "ok")
    /\ UNCHANGED <<running, resuming, steps, workDone, routed, interrupts, rejected,
                   crashed>>
    /\ Served

CancelNext ==
    \/ Next
    \/ MarkFailed

CancelSpec == Init /\ [][CancelNext]_vars

----------------------------------------------------------------------------
(* The routing functions of the two gates as pure functions: the workflow  *)
(* waits at a gate with any approval flag and any feedback value, and the  *)
(* gate's routing function is evaluated once.                              *)

Texts == {Text(w) : w \in UNION {[1..n -> Words] : n \in 0..MaxWords}}

FeedbackValues == {None, Unset} \cup Texts

AtGate(gate, s) ==
    [exists |-> TRUE, st |-> s, next |-> gate,
     as_node |-> IF gate = "review_diagnosis" THEN "diagnose" ELSE "generate_commands"]

RoutingInit ==
    /\ \E approved \in BOOLEAN, feedback \in FeedbackValues :
          \/ cp = AtGate("review_diagnosis",
                         [create_initial_state EXCEPT !.diagnosis_approved = approved,
                                                      !.diagnosis_feedback = feedback])
          \/ cp = AtGate("review_commands",
                         [create_initial_state EXCEPT !.commands_approved = approved,
                                                      !.commands_feedback = feedback])
    /\ loop = cp
    /\ running = FALSE
    /\ resuming = FALSE
    /\ steps = 0
    /\ ncalls = 0
    /\ last = Call("none", FALSE, Unset, "ok")
    /\ workDone = 0
    /\ routed = {}
    /\ interrupts = 0
    /\ rejected = FALSE
    /\ crashed = FALSE
    /\ inbox = << >>
    /\ store = put([i \in Ids |-> NoCheckpoint], "A", cp)
    /\ tid = "A"
    /\ args = NoArgs
    /\ out = NoResult

(* the conditional edge of `gate` calls its routing function on the state *)
Evaluate(gate) ==
    /\ routed = {}
    /\ routed' = Routing(gate, cp.st)
    /\ last' = [last EXCEPT !.op = gate,
                            !.result = IF Edge(gate, cp.st) = "raise" THEN "error" ELSE "ok"]
    /\ UNCHANGED <<cp, loop, running, resuming, steps, ncalls, workDone, interrupts,
                   rejected, crashed, server>>

EvaluateDiagnosisReview ==
    /\ cp.next = "review_diagnosis"
    /\ Evaluate("review_diagnosis")

EvaluateCommandsReview ==
    /\ cp.next = "review_commands"
    /\ Evaluate("review_commands")

RoutingNext ==
    \/ EvaluateDiagnosisReview
    \/ EvaluateCommandsReview

RoutingSpec == RoutingInit /\ [][RoutingNext]_vars

----------------------------------------------------------------------------
(* playbooks/playbook_library.py.  A string is kept by what the code asks  *)
(* of it.  A root cause is its text in lower case and whether it has       *)
(* upper-case letters (or None); time_to_effect is the set of the pieces   *)
(* "minute", "hour", "1", "2", "5", "10", "15", "30" it contains.  Rates,  *)
(* factor scores and confidences are in hundredths, scores in units of     *)
(* 0.00001.                                                                *)

Str(base, upper) == [kind |-> "str", base |-> base, upper |-> upper]

NoneStr == [kind |-> "None", base |-> "", upper |-> FALSE]

(* str.lower() *)
lower_str(s) == [s EXCEPT !.upper = FALSE]

(* `piece in text` for the pieces the engine looks for *)
contains(text, piece) ==
    CASE piece = "congestion" ->
            text.base \in {"congestion", "persistent_congestion", "network congestion"}
      [] piece = "latency" -> text.base \in {"high_latency"}
      [] OTHER -> FALSE

Playbook(id, root_causes, risk_level, time_to_effect, cost, typical_success_rate) ==
    [id |-> id, root_causes |-> root_causes, risk_level |-> risk_level,
     time_to_effect |-> time_to_effect, cost |-> cost,
     typical_success_rate |-> typical_success_rate]

PLAYBOOK_QOS_SHAPING ==
    Playbook("qos_traffic_shaping",
             <<Str("congestion", FALSE), Str("high_latency", FALSE),
               Str("packet_loss", FALSE)>>,
             "LOW", {"minute", "1", "10"}, "FREE", 85)

PLAYBOOK_TRAFFIC_OFFLOAD ==
    Playbook("partial_traffic_offload",
             <<Str("congestion", FALSE), Str("high_latency", FALSE)>>,
             "MEDIUM", {"minute", "2"}, "FREE", 78)

PLAYBOOK_CONFIG_ROLLBACK ==
    Playbook("config_rollback",
             <<Str("config_change", FALSE), Str("routing_issue", FALSE),
               Str("degradation_after_change", FALSE)>>,
             "LOW", {"minute", "1"}, "FREE", 92)

PLAYBOOK_HARDWARE_REPLACE ==
    Playbook("hardware_diagnostics_replace",
             <<Str("hardware_failure", FALSE), Str("interface_errors", FALSE),
               Str("line_card_failure", FALSE)>>,
             "HIGH", {"minute", "hour", "1", "2", "5", "15", "30"},
             "HIGH (replacement hardware cost)", 88)

PLAYBOOK_ROUTE_REDISTRIBUTION ==
    Playbook("route_redistribution",
             <<Str("routing_issue", FALSE), Str("suboptimal_path", FALSE),
               Str("route_flap", FALSE)>>,
             "MEDIUM", {"minute", "2", "5"}, "FREE", 81)

PLAYBOOK_EMERGENCY_CAPACITY ==
    Playbook("emergency_capacity_upgrade",
             <<Str("persistent_congestion", FALSE), Str("capacity_exhaustion", FALSE)>>,
             "HIGH", {"minute", "hour", "30"}, "HIGH (bandwidth cost increases)", 95)

ALL_PLAYBOOKS ==
    <<PLAYBOOK_QOS_SHAPING, PLAYBOOK_TRAFFIC_OFFLOAD, PLAYBOOK_CONFIG_ROLLBACK,
      PLAYBOOK_HARDWARE_REPLACE, PLAYBOOK_ROUTE_REDISTRIBUTION,
      PLAYBOOK_EMERGENCY_CAPACITY>>

declares(playbook, root_cause) ==
    \E i \in DOMAIN playbook.root_causes :
        lower_str(playbook.root_causes[i]) = lower_str(root_cause)

(* the catalog is the module's list; the functions are given it here *)
get_playbooks_for_root_cause(catalog, root_cause) ==
    SelectSeq(catalog, LAMBDA playbook : declares(playbook, root_cause))

----------------------------------------------------------------------------
(* agents/recommendation_engine.py *)

risk_scores(risk_level) ==
    CASE risk_level = "LOW" -> 100
      [] risk_level = "MEDIUM" -> 70
      [] risk_level = "HIGH" -> 40
      [] risk_level = "CRITICAL" -> 20
      [] OTHER -> 50

cost_scores(cost) ==
    CASE cost = "FREE" -> 100
      [] cost = "LOW" -> 90
      [] cost = "MEDIUM" -> 60
      [] cost = "HIGH" -> 30
      [] OTHER -> 50

_time_to_score(time_str) ==
    IF "minute" \in time_str
    THEN IF "1" \in time_str \/ "2" \in time_str THEN 100
         ELSE IF "5" \in time_str \/ "10" \in time_str THEN 80
         ELSE IF "15" \in time_str \/ "30" \in time_str THEN 60
         ELSE 50
    ELSE IF "hour" \in time_str
    THEN IF "1" \in time_str \/ "2" \in time_str THEN 40 ELSE 20
    ELSE 50

(* the sum of the five weighted factors, before the confidence adjustment *)
weighted_score(playbook, root_cause) ==
    LET root_cause_score ==
            IF declares(playbook, root_cause) THEN 100
            ELSE IF /\ contains(lower_str(root_cause), "congestion")
                    /\ \E i \in DOMAIN playbook.root_causes :
                          contains(lower_str(playbook.root_causes[i]), "latency")
                 THEN 50
                 ELSE 0
    IN  10 * (root_cause_score * 40
              + risk_scores(playbook.risk_level) * 25
              + _time_to_score(playbook.time_to_effect) * 15
              + cost_scores(playbook.cost) * 10
              + playbook.typical_success_rate * 10)

(* variant that penalizes whenever the confidence is low *)
_score_playbook_penalizes_any_risk(playbook, root_cause, confidence) ==
    IF confidence < 70
    THEN (weighted_score(playbook, root_cause) * 7) \div 10
    ELSE weighted_score(playbook, root_cause)

_score_playbook(playbook, root_cause, confidence) ==
    IF confidence < 70 /\ playbook.risk_level \in {"HIGH", "CRITICAL"}
    THEN (weighted_score(playbook, root_cause) * 7) \div 10
    ELSE weighted_score(playbook, root_cause)

(* round(score, 2), in hundredths.  Python rounds the binary float: the   *)
(* sums that end in 5 thousandths (0.335, 0.585, 0.785, 0.985) are floats  *)
(* not above the half and round down.                                      *)
round2(score) ==
    LET q == score \div 1000
        r == score % 1000
    IN  IF r <= 500 THEN q ELSE q + 1

(* variant that places an entry before the entries of equal score *)
insert_before_equal(sorted, entry) ==
    LET k == Cardinality({i \in DOMAIN sorted : sorted[i].score > entry.score})
    IN  SubSeq(sorted, 1, k) \o <<entry>> \o SubSeq(sorted, k + 1, Len(sorted))

(* list.sort(key=score, reverse=True) is stable: an entry goes after every *)
(* earlier entry whose score is not smaller                                *)
insert_by_score(sorted, entry) ==
    LET k == Cardinality({i \in DOMAIN sorted : sorted[i].score >= entry.score})
    IN  SubSeq(sorted, 1, k) \o <<entry>> \o SubSeq(sorted, k + 1, Len(sorted))

RECURSIVE sort_by_score(_)
sort_by_score(scored) ==
    IF scored = << >> THEN << >>
    ELSE insert_by_score(sort_by_score(SubSeq(scored, 1, Len(scored) - 1)),
                         scored[Len(scored)])

(* seq[:n] *)
slice(seq, n) ==
    IF n >= 0
    THEN SubSeq(seq, 1, IF n < Len(seq) THEN n ELSE Len(seq))
    ELSE SubSeq(seq, 1, IF Len(seq) + n > 0 THEN Len(seq) + n ELSE 0)

(* variant that does not fall back to the full catalog *)
candidates_without_fallback(catalog, root_cause) ==
    get_playbooks_for_root_cause(catalog, root_cause)

candidates_for(catalog, root_cause) ==
    LET matching == get_playbooks_for_root_cause(catalog, root_cause)
    IN  IF matching = << >> THEN catalog ELSE matching

(* the text fields of an option are copies of the playbook's and are left  *)
(* out; root_cause.lower() raises on None as soon as a playbook is looked  *)
(* at                                                                      *)
recommend(catalog, root_cause, confidence, top_n) ==
    IF root_cause.kind = "None" /\ catalog # << >>
    THEN [kind |-> "raise"]
    ELSE LET candidates == candidates_for(catalog, root_cause)
             scored == [i \in DOMAIN candidates |->
                          [playbook |-> candidates[i],
                           score |-> _score_playbook(candidates[i], root_cause,
                                                     confidence)]]
             top_recommendations == slice(sort_by_score(scored), top_n)
         IN  [kind |-> "ok",
              recommended |-> IF top_recommendations # << >>
                              THEN top_recommendations[1].playbook.id
                              ELSE "None",
              options |-> [i \in DOMAIN top_recommendations |->
                             [rank |-> i,
                              id |-> top_recommendations[i].playbook.id,
                              risk_level |-> top_recommendations[i].playbook.risk_level,
                              cost |-> top_recommendations[i].playbook.cost,
                              score |-> round2(top_recommendations[i].score)]],
              total_candidates |-> Len(candidates)]

----------------------------------------------------------------------------
(* The rule-based engine as pure functions.  The catalog is data of the    *)
(* library module: the functions are applied to the shipped catalog and to *)
(* catalogs of up to MaxCatalog playbooks taken from the shipped ones and  *)
(* two further ones (one scoring exactly like the first shipped playbook,  *)
(* one of CRITICAL risk declared with a capital letter).                   *)

OtherPlaybooks ==
    {Playbook("qos_second", <<Str("congestion", FALSE), Str("high_latency", FALSE)>>,
              "LOW", {"minute", "1", "10"}, "FREE", 85),
     Playbook("link_shutdown", <<Str("congestion", TRUE)>>,
              "CRITICAL", {"hour"}, "MEDIUM", 100)}

Catalogs ==
    LET Pool == {ALL_PLAYBOOKS[i] : i \in DOMAIN ALL_PLAYBOOKS} \cup OtherPlaybooks
    IN  {ALL_PLAYBOOKS} \cup
        {c \in UNION {[1..n -> Pool] : n \in 0..MaxCatalog} :
            \A i, j \in DOMAIN c : i # j => c[i] # c[j]}

RootCauses ==
    {Str("congestion", FALSE), Str("congestion", TRUE), Str("routing_issue", FALSE),
     Str("network congestion", FALSE), Str("unknown", FALSE), NoneStr}

Confidences == {50, 69, 70, 90}

(* playbooks of every risk level (one the table does not know), time, cost *)
(* and of success rates 0, 0.78 and 1.0                                    *)
AnyPlaybook ==
    {Playbook("any", <<rc>>, risk, time, cost, rate) :
        rc \in {Str("congestion", FALSE), Str("high_latency", TRUE)},
        risk \in {"LOW", "MEDIUM", "HIGH", "CRITICAL", "high"},
        time \in {{"minute", "1"}, {"minute", "5"}, {"minute", "30"}, {"minute"},
                  {"hour", "2"}, {"hour"}, {"1"}},
        cost \in {"FREE", "LOW", "MEDIUM", "HIGH", "HIGH (replacement hardware cost)"},
        rate \in {0, 78, 100}}

(* the time_to_effect strings of the shipped catalog and further ones,    *)
(* each with the durations in minutes that the text states (both ends of  *)
(* a range, every alternative; none for a text without duration):         *)
(* "10 minutes", "2 minutes", "1 minute", "15-30 minutes (diagnostics) or *)
(* 2-4 hours (replacement)", "2-5 minutes", "30 minutes - 4 hours          *)
(* (depending on provider)", "1 hour", "5 hours", "soon"                   *)
TimeStrings ==
    {[text |-> PLAYBOOK_QOS_SHAPING.time_to_effect, minutes |-> {10}],
     [text |-> PLAYBOOK_TRAFFIC_OFFLOAD.time_to_effect, minutes |-> {2}],
     [text |-> PLAYBOOK_CONFIG_ROLLBACK.time_to_effect, minutes |-> {1}],
     [text |-> PLAYBOOK_HARDWARE_REPLACE.time_to_effect, minutes |-> {15, 30, 120, 240}],
     [text |-> PLAYBOOK_ROUTE_REDISTRIBUTION.time_to_effect, minutes |-> {2, 5}],
     [text |-> PLAYBOOK_EMERGENCY_CAPACITY.time_to_effect, minutes |-> {30, 240}],
     [text |-> {"hour", "1"}, minutes |-> {60}],
     [text |-> {"hour", "5"}, minutes |-> {300}],
     [text |-> {}, minutes |-> {}]}

(* the workflow is not involved *)
NoWorkflow ==
    /\ cp = NoCheckpoint
    /\ loop = NoCheckpoint
    /\ running = FALSE
    /\ resuming = FALSE
    /\ steps = 0
    /\ ncalls = 0
    /\ last = Call("none", FALSE, Unset, "ok")
    /\ workDone = 0
    /\ routed = {}
    /\ interrupts = 0
    /\ rejected = FALSE
    /\ crashed = FALSE
    /\ inbox = << >>
    /\ store = [i \in Ids |-> NoCheckpoint]
    /\ tid = "A"

RecommendInit ==
    /\ NoWorkflow
    /\ \/ \E catalog \in Catalogs, root_cause \in RootCauses,
             confidence \in Confidences, top_n \in (0 - 1)..MaxTopN :
             args = [fn |-> "recommend", catalog |-> catalog,
                     root_cause |-> root_cause, confidence |-> confidence,
                     top_n |-> top_n]
       \/ \E playbook \in AnyPlaybook \cup {ALL_PLAYBOOKS[i] : i \in DOMAIN ALL_PLAYBOOKS},
             root_cause \in RootCauses \ {NoneStr}, confidence \in Confidences :
             args = [fn |-> "_score_playbook", playbook |-> playbook,
                     root_cause |-> root_cause, confidence |-> confidence]
       \/ \E time \in TimeStrings :
             args = [fn |-> "_time_to_score", time_str |-> time.text,
                     minutes |-> time.minutes]
    /\ out = NoResult

Recommend ==
    /\ args.fn = "recommend"
    /\ out = NoResult
    /\ out' = recommend(args.catalog, args.root_cause, args.confidence, args.top_n)
    /\ UNCHANGED <<workflow, args>>

ScorePlaybook ==
    /\ args.fn = "_score_playbook"
    /\ out = NoResult
    /\ out' = [kind |-> "score",
               score |-> _score_playbook(args.playbook, args.root_cause,
                                         args.confidence)]
    /\ UNCHANGED <<workflow, args>>

TimeToScore ==
    /\ args.fn = "_time_to_score"
    /\ out = NoResult
    /\ out' = [kind |-> "score", score |-> _time_to_score(args.time_str)]
    /\ UNCHANGED <<workflow, args>>

RecommendNext ==
    \/ Recommend
    \/ ScorePlaybook
    \/ TimeToScore

RecommendSpec == RecommendInit /\ [][RecommendNext]_vars

----------------------------------------------------------------------------
(* agents/hybrid_recommendation_engine.py.  The reply of the ranking       *)
(* oracle is either an exception of invoke_model (or of reading its body)  *)
(* or a text; a text is kept by whether it holds a {...} block, whether    *)
(* json.loads accepts the block, and the value it then gives.              *)

OracleRaises == [kind |-> "raise", block |-> FALSE, valid |-> FALSE, rankings |-> << >>]

OracleText(block, valid, rankings) ==
    [kind |-> "text", block |-> block, valid |-> valid, rankings |-> rankings]

Ranking(playbook_id, score) == [playbook_id |-> playbook_id, score |-> score]

(* re.search finds the block, json.loads reads it; a text without block or *)
(* with a block that is no JSON gives the empty structure                  *)
_extract_json_from_text(text) ==
    IF text.block /\ text.valid
    THEN [rankings |-> text.rankings]
    ELSE [rankings |-> << >>]

_ai_rerank(candidates, reply) ==
    IF reply.kind = "raise"
    THEN [kind |-> "raise", ranked |-> << >>]
    ELSE LET ai_rankings == _extract_json_from_text(reply).rankings
             known == SelectSeq(ai_rankings,
                          LAMBDA ranking :
                              \E i \in DOMAIN candidates :
                                  candidates[i].id = ranking.playbook_id)
             candidate(id) ==
                 candidates[CHOOSE i \in DOMAIN candidates : candidates[i].id = id]
         IN  [kind |-> "ok",
              ranked |-> [k \in DOMAIN known |->
                            [rank |-> candidate(known[k].playbook_id).rank,
                             id |-> known[k].playbook_id,
                             risk_level |-> candidate(known[k].playbook_id).risk_level,
                             cost |-> candidate(known[k].playbook_id).cost,
                             ai_score |-> known[k].score,
                             rule_based_score |-> candidate(known[k].playbook_id).score,
                             score |-> known[k].score]]]

(* use_ai is "True", "False" or "None"; use_ai_reranking is the flag of    *)
(* the configuration; bedrock_client tells whether the client exists       *)
should_use_ai(use_ai, use_ai_reranking) ==
    IF use_ai # "None" THEN use_ai = "True" ELSE use_ai_reranking

(* engine: the engine's use_ai_reranking and bedrock_client *)
hybrid_recommend(catalog, root_cause, confidence, top_n, use_ai, engine, reply) ==
    LET rule_based_result == recommend(catalog, root_cause, confidence, 5)
        wanted == should_use_ai(use_ai, engine.use_ai_reranking)
        ai == _ai_rerank(rule_based_result.options, reply)
    IN  IF wanted /\ engine.bedrock_client /\ Len(rule_based_result.options) > 1
           /\ ai.kind = "ok"
        THEN [kind |-> "ok",
              recommended |-> IF ai.ranked # << >> THEN ai.ranked[1].id ELSE "None",
              options |-> slice(ai.ranked, top_n),
              total_candidates |-> rule_based_result.total_candidates,
              ranking_method |-> "hybrid (rule-based + AI)",
              fallback_used |-> FALSE]
        ELSE [kind |-> "ok",
              recommended |-> rule_based_result.recommended,
              options |-> slice(rule_based_result.options, top_n),
              total_candidates |-> rule_based_result.total_candidates,
              ranking_method |-> "rule-based only",
              fallback_used |-> wanted]

----------------------------------------------------------------------------
(* The hybrid engine as a pure function of its arguments, of the engine's  *)
(* configuration and of the oracle's reply.                                *)

OracleReplies ==
    {OracleRaises,
     OracleText(FALSE, FALSE, << >>),
     OracleText(TRUE, FALSE, << >>),
     OracleText(TRUE, TRUE, << >>),
     OracleText(TRUE, TRUE, <<Ranking("partial_traffic_offload", 92),
                              Ranking("qos_traffic_shaping", 78)>>),
     OracleText(TRUE, TRUE, <<Ranking("reboot_router", 99),
                              Ranking("qos_traffic_shaping", 80)>>),
     OracleText(TRUE, TRUE, <<Ranking("qos_traffic_shaping", 90),
                              Ranking("partial_traffic_offload", 85),
                              Ranking("qos_traffic_shaping", 70)>>)}

(* __init__ switches use_ai_reranking off when the client cannot be made *)
HybridInit ==
    /\ NoWorkflow
    /\ \E catalog \in {ALL_PLAYBOOKS, << >>, <<PLAYBOOK_QOS_SHAPING>>,
                         <<PLAYBOOK_QOS_SHAPING, PLAYBOOK_TRAFFIC_OFFLOAD>>},
          root_cause \in RootCauses \ {NoneStr},
          confidence \in {50, 90}, top_n \in {1, 3, 6},
          use_ai \in {"True", "False", "None"},
          engine \in [use_ai_reranking : BOOLEAN, bedrock_client : BOOLEAN],
          reply \in OracleReplies :
          /\ ~engine.bedrock_client => ~engine.use_ai_reranking
          /\ args = [fn |-> "hybrid_recommend", catalog |-> catalog,
                     root_cause |-> root_cause, confidence |-> confidence,
                     top_n |-> top_n, use_ai |-> use_ai, engine |-> engine,
                     reply |-> reply]
    /\ out = NoResult

HybridRecommend ==
    /\ args.fn = "hybrid_recommend"
    /\ out = NoResult
    /\ out' = hybrid_recommend(args.catalog, args.root_cause, args.confidence,
                               args.top_n, args.use_ai, args.engine, args.reply)
    /\ UNCHANGED <<workflow, args>>

HybridSpec == HybridInit /\ [][HybridRecommend]_vars

----------------------------------------------------------------------------
(* app/policy.py.  A candidate, a policy and the prices are kept by the    *)
(* attributes the code reads (the classes are imported from app.models);   *)
(* latencies are in ms, amounts in cents per hour.  A reason is kept by    *)
(* the rule it reports and the two values its text shows.                  *)

CandidateOption(id, kind, eta_minutes, pred_latency_ms, euro_delta) ==
    [id |-> id, kind |-> kind, eta_minutes |-> eta_minutes,
     pred_latency_ms |-> pred_latency_ms, euro_delta |-> euro_delta,
     policy_verdict |-> [ok |-> FALSE, reasons |-> << >>, set |-> FALSE]]

Policy(latency_target_ms, max_burst_cost_per_hr_eur) ==
    [latency_target_ms |-> latency_target_ms,
     max_burst_cost_per_hr_eur |-> max_burst_cost_per_hr_eur]

Reason(rule, value, limit) == [rule |-> rule, value |-> value, limit |-> limit]

(* variant that stops at the first violation *)
check_first_violation(candidate, policy, prices) ==
    LET reasons ==
            IF candidate.pred_latency_ms > policy.latency_target_ms
            THEN <<Reason("latency", candidate.pred_latency_ms,
                          policy.latency_target_ms)>>
            ELSE IF candidate.kind = "burst_capacity"
                    /\ candidate.euro_delta > policy.max_burst_cost_per_hr_eur
                 THEN <<Reason("cost", candidate.euro_delta,
                               policy.max_burst_cost_per_hr_eur)>>
                 ELSE << >>
    IN  [ok |-> Len(reasons) = 0, reasons |-> reasons, set |-> TRUE]

(* variant whose ok only looks at the latency *)
check_ok_by_latency(candidate, policy, prices) ==
    LET latency ==
            IF candidate.pred_latency_ms > policy.latency_target_ms
            THEN <<Reason("latency", candidate.pred_latency_ms,
                          policy.latency_target_ms)>>
            ELSE << >>
        cost ==
            IF candidate.kind = "burst_capacity"
               /\ candidate.euro_delta > policy.max_burst_cost_per_hr_eur
            THEN <<Reason("cost", candidate.euro_delta,
                          policy.max_burst_cost_per_hr_eur)>>
            ELSE << >>
    IN  [ok |-> Len(latency) = 0, reasons |-> latency \o cost, set |-> TRUE]

check(candidate, policy, prices) ==
    LET latency ==
            IF candidate.pred_latency_ms > policy.latency_target_ms
            THEN <<Reason("latency", candidate.pred_latency_ms,
                          policy.latency_target_ms)>>
            ELSE << >>
        cost ==
            IF candidate.kind = "burst_capacity"
               /\ candidate.euro_delta > policy.max_burst_cost_per_hr_eur
            THEN <<Reason("cost", candidate.euro_delta,
                          policy.max_burst_cost_per_hr_eur)>>
            ELSE << >>
        reasons == latency \o cost
    IN  [ok |-> Len(reasons) = 0, reasons |-> reasons, set |-> TRUE]

----------------------------------------------------------------------------
(* app/nodes/policy_gate.py *)

(* the sort key (pred_latency_ms, euro_delta, eta_minutes), compared as    *)
(* tuples                                                                  *)
key_le(a, b) ==
    \/ a.pred_latency_ms < b.pred_latency_ms
    \/ /\ a.pred_latency_ms = b.pred_latency_ms
       /\ \/ a.euro_delta < b.euro_delta
          \/ /\ a.euro_delta = b.euro_delta
             /\ a.eta_minutes <= b.eta_minutes

(* list.sort(key=...) is stable: a candidate goes after every earlier one  *)
(* whose key is not larger                                                 *)
insert_by_key(sorted, candidate) ==
    LET k == Cardinality({i \in DOMAIN sorted : key_le(sorted[i], candidate)})
    IN  SubSeq(sorted, 1, k) \o <<candidate>> \o SubSeq(sorted, k + 1, Len(sorted))

RECURSIVE sort_by_key(_)
sort_by_key(candidates) ==
    IF candidates = << >> THEN << >>
    ELSE insert_by_key(sort_by_key(SubSeq(candidates, 1, Len(candidates) - 1)),
                       candidates[Len(candidates)])

NoCandidate == [id |-> "None"]

(* variant that recommends the best candidate whether it passed or not *)
select_from_all(checked) ==
    LET ordered == sort_by_key(checked)
    IN  IF ordered # << >> THEN [id |-> ordered[1].id] ELSE NoCandidate

(* the recommendation, given the candidates with their verdicts *)
select_recommendation(checked) ==
    LET passing_candidates == SelectSeq(checked, LAMBDA c : c.policy_verdict.ok)
        ordered == sort_by_key(passing_candidates)
    IN  IF ordered # << >> THEN [id |-> ordered[1].id] ELSE NoCandidate

(* state: error, candidates, bundle (policy, prices_eur), policy_verdicts, *)
(* recommendation                                                          *)
policy_gate(state) ==
    IF state.error \/ state.candidates = << >>
    THEN state
    ELSE LET checked ==
                 [i \in DOMAIN state.candidates |->
                    [state.candidates[i] EXCEPT
                        !.policy_verdict = check(state.candidates[i],
                                                 state.bundle.policy,
                                                 state.bundle.prices_eur)]]
         IN  [state EXCEPT
                 !.candidates = checked,
                 !.policy_verdicts =
                     [i \in DOMAIN checked |->
                        [candidate_id |-> checked[i].id,
                         verdict |-> checked[i].policy_verdict]],
                 !.recommendation = select_recommendation(checked)]

----------------------------------------------------------------------------
(* The policy check as a pure function: it is applied up to MaxChecks      *)
(* times to the same candidate, policy and prices.                         *)

Kinds == {"burst_capacity", "partial_offload"}

Amounts == {0, 2000}

Etas == {5, 30}

Prices == [burst_per_hr |-> 2000]

PolicyInit ==
    /\ NoWorkflow
    /\ \E kind \in Kinds, latency \in {40, 50, 51, 120}, amount \in Amounts,
          eta \in Etas,
          policy \in {Policy(target, budget) :
                         target \in {50, 100}, budget \in {1000, 3000}} :
          args = [fn |-> "check",
                  candidate |-> CandidateOption("c1", kind, eta, latency, amount),
                  policy |-> policy, prices |-> Prices,
                  verdicts |-> << >>]
    /\ out = NoResult

(* one call of check; the verdicts of the earlier calls are kept *)
Check ==
    /\ args.fn = "check"
    /\ Len(args.verdicts) < MaxChecks
    /\ out' = check(args.candidate, args.policy, args.prices)
    /\ args' = [args EXCEPT !.verdicts = Append(args.verdicts, out')]
    /\ UNCHANGED workflow

PolicySpec == PolicyInit /\ [][Check]_vars

----------------------------------------------------------------------------
(* The policy_gate step as a pure function of the state it is given: up to *)
(* MaxCandidates candidates, sorted by predicted latency as rank_playbooks *)
(* leaves them, or an error of an earlier step.                            *)

CandidateLists ==
    UNION {[1..n -> Kinds \X {40, 120} \X Amounts \X Etas] : n \in 0..MaxCandidates}

GateState(error, shapes, policy) ==
    [error |-> error,
     candidates |-> [i \in DOMAIN shapes |->
                       CandidateOption(<<"c1", "c2", "c3", "c4">>[i], shapes[i][1],
                                       shapes[i][4], shapes[i][2], shapes[i][3])],
     bundle |-> [policy |-> policy, prices_eur |-> Prices],
     policy_verdicts |-> << >>,
     recommendation |-> NoCandidate]

PolicyGateInit ==
    /\ NoWorkflow
    /\ \E error \in BOOLEAN, shapes \in CandidateLists,
          policy \in {Policy(50, 1000), Policy(100, 3000), Policy(30, 1000)} :
          /\ \A i, j \in DOMAIN shapes : i < j => shapes[i][2] <= shapes[j][2]
          /\ args = [fn |-> "policy_gate", state |-> GateState(error, shapes, policy)]
    /\ out = NoResult

PolicyGate ==
    /\ args.fn = "policy_gate"
    /\ out = NoResult
    /\ out' = policy_gate(args.state)
    /\ UNCHANGED <<workflow, args>>

PolicyGateSpec == PolicyGateInit /\ [][PolicyGate]_vars

----------------------------------------------------------------------------
(* Properties *)

ApprovalOps == DiagnosisOps \cup {"approve_commands"}

(* a call is made in this step *)
CallMade == ncalls' = ncalls - 1

ExecuteErrors(s) == {i \in DOMAIN s.errors : s.errors[i].step = "execute"}

ExecuteRan(s) ==
    \/ \E i \in DOMAIN s.history : s.history[i] = "execute"
    \/ ExecuteErrors(s) # {}

(* the step runs the work node `node` *)
WorkStep(node) ==
    /\ workDone' = workDone + 1
    /\ cp'.as_node = node

IsPrefix(a, b) ==
    /\ Len(a) <= Len(b)
    /\ \A i \in DOMAIN a : a[i] = b[i]

HappyHistory ==
    <<"diagnose", "recommend", "generate_commands", "execute", "generate_rca">>

(* C1: execute is scheduled or has run only if route_after_commands_review *)
(* returned "execute" on a state whose commands_approved was true.         *)
C1_ExecuteOnlyAfterApproval ==
    (cp.next = "execute" \/ loop.next = "execute" \/ ExecuteRan(cp.st))
        => \E r \in routed : /\ r.gate = "review_commands"
                             /\ r.result = "execute"
                             /\ r.approved

C1_Witness == ExecuteRan(cp.st) /\ ~running

(* C2: once a rejection without retry cue was submitted at                 *)
(* review_diagnosis, the recommend step does not run in that execution     *)
(* (stated for executions without an interrupted run).                     *)
C2_RejectionStops == [][(rejected /\ ~crashed) => ~WorkStep("recommend")]_vars

(* C3: an approval submitted for a gate the workflow is not waiting at     *)
(* returns an error and leaves the checkpointed state unchanged.           *)
C3_WrongGateRejected ==
    [][(/\ CallMade
        /\ ~crashed
        /\ \/ last'.op = "approve_commands" /\ cp.next # "review_commands"
           \/ last'.op \in DiagnosisOps /\ cp.next # "review_diagnosis")
         => (last'.result = "error" /\ cp' = cp)]_vars

(* C4: every accepted approval submission appends exactly one record to    *)
(* approvals and keeps the records already there.                          *)
C4_ApprovalsAppendOnly ==
    [][(CallMade /\ ~crashed /\ last'.op \in ApprovalOps /\ last'.result # "error")
         => /\ Len(cp'.st.approvals) = Len(cp.st.approvals) + 1
            /\ IsPrefix(cp.st.approvals, cp'.st.approvals)]_vars

(* C5: once the workflow is at the end of the graph, an approval, a        *)
(* select-playbook or a resume leaves the checkpoint unchanged.            *)
C5_TerminalAbsorbing ==
    [][(~crashed /\ cp.exists /\ cp.next = END /\ CallMade /\ last'.op # "start")
         => cp' = cp]_vars

(* C6: when start has returned and the diagnose step succeeded, the state  *)
(* reports workflow_status "paused" and current_step "review_diagnosis".   *)
C6_PausedAfterStart ==
    (~running /\ last.op = "start" /\ last.result = "ok"
     /\ cp.st.history = <<"diagnose">>)
        => /\ cp.st.workflow_status = "paused"
           /\ cp.st.current_step = "review_diagnosis"

(* C7: a workflow that reached the end through generate_rca, whose gates   *)
(* routed only "approved" and "execute", without a failed step or an       *)
(* interrupted run, stopped twice before a gate and ran the five work      *)
(* steps once each, in order, and has a report.                            *)
HappyPath ==
    /\ ~running
    /\ cp.next = END
    /\ cp.as_node = "generate_rca"
    /\ cp.st.errors = << >>
    /\ ~crashed
    /\ routed = {[gate |-> "review_diagnosis", result |-> "approved", approved |-> TRUE],
                 [gate |-> "review_commands", result |-> "execute", approved |-> TRUE]}

C7_HappyPathOrder ==
    HappyPath => /\ cp.st.history = HappyHistory
                 /\ workDone = 5
                 /\ interrupts = 2
                 /\ cp.st.rca_report = "report"

C7_Witness == HappyPath

(* C8: a non-approving decision with the gate's redo cue, submitted while  *)
(* the workflow waits at that gate, makes the operation resume the run     *)
(* (so that the redo branch is taken).                                     *)
C8_RedoResumes ==
    [][(/\ CallMade
        /\ ~last'.approved
        /\ \/ /\ last'.op \in DiagnosisOps
              /\ last'.feedback = Text(<<Word("retry")>>)
              /\ cp.next = "review_diagnosis"
           \/ /\ last'.op = "approve_commands"
              /\ last'.feedback = Text(<<Word("modify")>>)
              /\ cp.next = "review_commands")
         => running']_vars

C10_FailedAfterTwo ==
    (/\ ~running
     /\ last.result # "aborted"
     /\ cp.st.execution_status = "failed"
     /\ Cardinality(ExecuteErrors(cp.st)) >= 2)
        => /\ cp.next = END
           /\ cp.st.workflow_status = "failed"
           /\ Cardinality(ExecuteErrors(cp.st)) = 2

DiagnoseErrors(s) == {i \in DOMAIN s.errors : s.errors[i].step = "diagnose"}

Succeeded(s, step) == \E i \in DOMAIN s.history : s.history[i] = step

(* C11: when the diagnose step has failed three times in a row (three      *)
(* diagnose errors and no successful diagnose since the start), the state  *)
(* holds the fallback diagnosis of confidence 0.3 and the step that failed *)
(* last is followed by review_diagnosis, not by another diagnose.          *)
C11_FallbackAfterThree ==
    (/\ cp.exists
     /\ Cardinality(DiagnoseErrors(cp.st)) >= 3
     /\ ~Succeeded(cp.st, "diagnose"))
        => /\ cp.st.diagnosis = [kind |-> "fallback", confidence |-> 30]
           /\ cp.as_node = "diagnose" => cp.next = "review_diagnosis"

C11_Witness ==
    /\ ~running
    /\ Cardinality(DiagnoseErrors(cp.st)) = 3
    /\ ~Succeeded(cp.st, "diagnose")
    /\ cp.st.diagnosis.kind = "fallback"
    /\ cp.next = "review_diagnosis"

(* the step appends one entry for `node` to history and none to errors *)
RecordedSuccess(node) ==
    /\ cp'.st.history = Append(cp.st.history, node)
    /\ cp'.st.errors = cp.st.errors

(* the step appends one entry for `node` to errors and none to history *)
RecordedFailure(node) ==
    /\ Len(cp'.st.errors) = Len(cp.st.errors) + 1
    /\ IsPrefix(cp.st.errors, cp'.st.errors)
    /\ cp'.st.errors[Len(cp'.st.errors)].step = node
    /\ cp'.st.history = cp.st.history

HasCue(feedback, cues) ==
    /\ feedback.kind = "text"
    /\ \E i \in DOMAIN feedback.words : feedback.words[i].base \in cues

(* C13: route_after_diagnosis_review returns "approved" when               *)
(* diagnosis_approved is true, otherwise "retry" when the feedback holds   *)
(* "retry" or "again" in any case, otherwise "stop"; so a null, a missing  *)
(* or an empty feedback without approval gives "stop".                     *)
C13_DiagnosisRouteDefaultDeny ==
    \A r \in routed :
        r.gate = "review_diagnosis"
            => r.result = IF cp.st.diagnosis_approved THEN "approved"
                          ELSE IF HasCue(cp.st.diagnosis_feedback, {"retry", "again"})
                               THEN "retry"
                               ELSE "stop"

(* C14: route_after_commands_review returns "execute" when                 *)
(* commands_approved is true, otherwise "modify" when the feedback holds   *)
(* "modify", "change" or "different" in any case, otherwise "stop".        *)
C14_CommandsRouteDefaultDeny ==
    \A r \in routed :
        r.gate = "review_commands"
            => r.result = IF cp.st.commands_approved THEN "execute"
                          ELSE IF HasCue(cp.st.commands_feedback,
                                         {"modify", "change", "different"})
                               THEN "modify"
                               ELSE "stop"

(* C15: the current_step of every checkpointed state names a node of the   *)
(* workflow graph.                                                         *)
C15_CurrentStepIsNode ==
    cp.exists => cp.st.current_step \in WorkNodes \cup GateNodes

(* C16: a checkpointed state whose workflow_status is "paused" has an      *)
(* interrupt point as current_step.                                        *)
C16_PausedAtInterruptPoint ==
    (cp.exists /\ cp.st.workflow_status = "paused")
        => cp.st.current_step \in InterruptBefore

(* C17: the retry counters are never negative, and a work step that        *)
(* completes successfully leaves them at 0.                                *)
C17_RetryCountersReset ==
    /\ [](cp.exists => cp.st.retry_count >= 0 /\ execution_retry_count(cp.st) >= 0)
    /\ [][\A n \in WorkNodes :
            (~crashed /\ WorkStep(n) /\ RecordedSuccess(n))
                => (cp'.st.retry_count = 0 /\ execution_retry_count(cp'.st) = 0)]_vars

(* C18: when a run has returned with the workflow at the end of the graph, *)
(* workflow_status is "completed" if the last step was generate_rca and    *)
(* "failed" if it was execute, and it is never "running" or "paused".      *)
C18_TerminalStatus ==
    (~running /\ cp.exists /\ cp.next = END /\ last.result = "ok")
        => /\ cp.as_node = "generate_rca" => cp.st.workflow_status = "completed"
           /\ cp.as_node = "execute" => cp.st.workflow_status = "failed"
           /\ cp.st.workflow_status \notin {"running", "paused"}

Terminated(s) == \E i \in DOMAIN s.errors : s.errors[i] = TerminalError

(* C19: once the incident was marked failed from outside (a terminal error *)
(* entry is in errors), no approval, select-playbook or resume makes a     *)
(* step of the workflow run, and workflow_status stays "failed".           *)
C19_CancelledStaysFailed ==
    [][(/\ cp.exists
        /\ Terminated(cp.st)
        /\ ~crashed
        /\ ~(CallMade /\ last'.op = "start"))
         => /\ cp'.as_node = cp.as_node
            /\ workDone' = workDone
            /\ cp'.st.workflow_status = "failed"]_vars

(* C20: an approval submitted while no workflow was started for the        *)
(* incident id returns an error and leaves the thread without checkpoint.  *)
C20_UnknownIdRejected ==
    [][(~cp.exists /\ CallMade /\ last'.op \in ApprovalOps)
         => (last'.result = "error" /\ ~cp'.exists)]_vars

(* the request inbox[i] is handled in this step *)
Handled(i) == i \in Waiting /\ inbox'[i].handled

C22_IncidentsIndependent ==
    /\ [][\A id \in Ids : id # tid' => store'[id] = store[id]]_vars
    /\ [](~running => cp = store[tid])

(* both incidents have a workflow, in different states, and a call for one *)
(* was served after calls for the other                                    *)
C22_Witness ==
    /\ \A id \in Ids : store[id].exists
    /\ store["A"] # store["B"]
    /\ Len(store["A"].st.history) >= 3
    /\ tid = "A"
    /\ ~running

(* C30: whenever the execute step runs on generated commands, the commands *)
(* were generated for the playbook that is selected at that moment.         *)
C30_CommandsRegenerated ==
    [][WorkStep("execute") /\ loop.st.commands \notin {"unset", "error"}
          => loop.st.commands = loop.st.selected_playbook_id]_vars

(* the position of the playbook `id` in the catalog of the call *)
CatalogIndex(id) == CHOOSE i \in DOMAIN args.catalog : args.catalog[i].id = id

(* the score the call computed for the playbook `id` *)
ComputedScore(id) ==
    _score_playbook(args.catalog[CatalogIndex(id)], args.root_cause, args.confidence)

Recommended == args.fn = "recommend" /\ out # NoResult /\ out.kind = "ok"

(* C23: the options recommend returns are in non-increasing order of score *)
(* (as computed and as shown), and options of equal computed score are in  *)
(* the order of their playbooks in the catalog.                            *)
C23_RankingSortedStable ==
    Recommended =>
        \A i, j \in DOMAIN out.options :
            i < j =>
                /\ out.options[i].score >= out.options[j].score
                /\ ComputedScore(out.options[i].id) >= ComputedScore(out.options[j].id)
                /\ ComputedScore(out.options[i].id) = ComputedScore(out.options[j].id)
                      => CatalogIndex(out.options[i].id) < CatalogIndex(out.options[j].id)

(* two playbooks of equal score are returned, separated by the cut or not, *)
(* from a catalog in which a playbook of another score stands between them *)
C23_Witness ==
    /\ Recommended
    /\ \E i, j \in DOMAIN out.options :
          /\ i < j
          /\ ComputedScore(out.options[i].id) = ComputedScore(out.options[j].id)
          /\ CatalogIndex(out.options[j].id) > CatalogIndex(out.options[i].id) + 1

Scored == args.fn = "_score_playbook" /\ out # NoResult

(* C24: the weighted score lies in [0, 1]; the score returned is 0.7 times *)
(* it exactly when the confidence is below 0.7 and the risk level is HIGH  *)
(* or CRITICAL, and the weighted score itself otherwise.                   *)
C24_ScoreRangeAndPenalty ==
    Scored =>
        LET w == weighted_score(args.playbook, args.root_cause)
            penalized == args.confidence < 70
                         /\ args.playbook.risk_level \in {"HIGH", "CRITICAL"}
        IN  /\ 0 <= w /\ w <= 100000
            /\ penalized => out.score * 10 = w * 7
            /\ ~penalized => out.score = w
            /\ out.score <= w
            /\ args.playbook.risk_level \in {"LOW", "MEDIUM"} => out.score = w

(* a CRITICAL playbook scored under confidence 0.69 and penalized *)
C24_Witness ==
    /\ Scored
    /\ args.confidence = 69
    /\ args.playbook.risk_level = "CRITICAL"
    /\ out.score < weighted_score(args.playbook, args.root_cause)

(* C29: recommend scores the catalog playbooks that declare the root cause, *)
(* the full catalog when none declares it, and returns no options without  *)
(* raising when that set is empty.                                         *)
C29_CandidateSet ==
    args.fn = "recommend" /\ out # NoResult =>
        LET declaring == {i \in DOMAIN args.catalog :
                             declares(args.catalog[i], args.root_cause)}
            scoredIds == IF declaring # {}
                         THEN {args.catalog[i].id : i \in declaring}
                         ELSE {args.catalog[i].id : i \in DOMAIN args.catalog}
        IN  /\ out.kind = "ok" =>
                 /\ out.total_candidates = Cardinality(scoredIds)
                 /\ \A i \in DOMAIN out.options : out.options[i].id \in scoredIds
                 /\ Len(out.options) =
                       Len(slice([i \in 1..Cardinality(scoredIds) |-> i], args.top_n))
            /\ scoredIds = {} => out.kind = "ok" /\ out.options = << >>

(* no playbook of a catalog of three declares the cause: all are scored *)
C29_Witness ==
    /\ Recommended
    /\ Len(args.catalog) = 3
    /\ \A i \in DOMAIN args.catalog : ~declares(args.catalog[i], args.root_cause)
    /\ out.total_candidates = 3
    /\ Len(out.options) = 3

(* the oracle cannot be asked, raises, or replies with a text that does    *)
(* not hold rankings that can be read                                      *)
OracleFailed ==
    \/ ~args.engine.bedrock_client
    \/ args.reply.kind = "raise"
    \/ ~(args.reply.block /\ args.reply.valid)

(* C25: when re-ranking is requested and the oracle is unavailable, raises *)
(* or replies with unreadable content, the hybrid recommend returns the    *)
(* rule-based ranking (the five best the engine asks the rules for), cut   *)
(* to top_n, with fallback_used = true.                                    *)
C25_FallbackOnOracleFailure ==
    /\ args.fn = "hybrid_recommend"
    /\ out # NoResult
    /\ should_use_ai(args.use_ai, args.engine.use_ai_reranking)
    /\ OracleFailed
    => /\ out.fallback_used
       /\ out.options =
             slice(recommend(args.catalog, args.root_cause, args.confidence,
                             5).options, args.top_n)

Checked == args.fn = "check" /\ args.verdicts # << >>

ReasonsOf(verdict, rule) ==
    {i \in DOMAIN verdict.reasons : verdict.reasons[i].rule = rule}

(* C27: the verdict has a latency reason, showing both values, exactly     *)
(* when the predicted latency is above the target, a cost reason exactly   *)
(* when the kind is burst_capacity and the cost is above the budget, and   *)
(* no other reason; so both violations give two reasons.                   *)
C27_AllViolationsReported ==
    Checked =>
        LET v == args.verdicts[Len(args.verdicts)]
            late == args.candidate.pred_latency_ms > args.policy.latency_target_ms
            dear == /\ args.candidate.kind = "burst_capacity"
                    /\ args.candidate.euro_delta > args.policy.max_burst_cost_per_hr_eur
        IN  /\ Cardinality(ReasonsOf(v, "latency")) = (IF late THEN 1 ELSE 0)
            /\ Cardinality(ReasonsOf(v, "cost")) = (IF dear THEN 1 ELSE 0)
            /\ Len(v.reasons) = (IF late THEN 1 ELSE 0) + (IF dear THEN 1 ELSE 0)
            /\ \A i \in ReasonsOf(v, "latency") :
                  /\ v.reasons[i].value = args.candidate.pred_latency_ms
                  /\ v.reasons[i].limit = args.policy.latency_target_ms
            /\ args.candidate.kind # "burst_capacity" => ReasonsOf(v, "cost") = {}

(* a burst candidate predicted at 120 ms against a target of 50 ms and     *)
(* above the budget: two reasons                                           *)
C27_Witness ==
    /\ Checked
    /\ args.candidate.pred_latency_ms = 120
    /\ args.policy.latency_target_ms = 50
    /\ args.candidate.kind = "burst_capacity"
    /\ Len(args.verdicts[1].reasons) = 2
    /\ args.verdicts[1].reasons[1] = Reason("latency", 120, 50)

Gated == args.fn = "policy_gate" /\ out # NoResult

(* the candidates of the state that passed the policy *)
Passing(state) ==
    {i \in DOMAIN state.candidates :
        state.candidates[i].policy_verdict.set /\ state.candidates[i].policy_verdict.ok}

----------------------------------------------------------------------------
(* execution retries, audit entries and approvals *)

(* C31: a run resumed by an approval of the commands in which execute      *)
(* fails on every attempt ends at the end of the graph, with a result      *)
(* returned and execute entered at most three times (the first attempt     *)
(* and two retries).                                                       *)
C31_ExecuteRetriesBounded ==
    (/\ ~running
     /\ last.op = "approve_commands"
     /\ last.approved
     /\ ~crashed
     /\ cp.as_node = "execute"
     /\ cp.st.execution_status = "failed")
        => /\ cp.next = END
           /\ last.result = "ok"
           /\ Cardinality(ExecuteErrors(cp.st)) <= 3

(* C32: a failed execute attempt appends exactly one entry to errors, of   *)
(* step execute, and the entry carries the number of the attempt.          *)
C32_ExecuteErrorHasAttempt ==
    [][WorkStep("execute") /\ loop'.st.execution_status = "failed"
          => /\ Len(loop'.st.errors) = Len(loop.st.errors) + 1
             /\ IsPrefix(loop.st.errors, loop'.st.errors)
             /\ LET e == loop'.st.errors[Len(loop'.st.errors)]
                IN  /\ e.step = "execute"
                    /\ e.has_attempt
                    /\ e.retry_attempt = Cardinality(ExecuteErrors(loop.st))]_vars

(* C33: when recommend or generate_commands fails, the failure is caught   *)
(* and appended to errors with the value of retry_count at that moment,    *)
(* and retry_count is incremented.                                         *)
C33_FailureCountsRetry ==
    [][((WorkStep("recommend") \/ WorkStep("generate_commands"))
        /\ Len(loop'.st.errors) > Len(loop.st.errors))
          => LET e == loop'.st.errors[Len(loop'.st.errors)]
             IN  /\ e.step = cp'.as_node
                 /\ e.has_attempt
                 /\ e.retry_attempt = loop.st.retry_count
                 /\ loop'.st.retry_count = loop.st.retry_count + 1]_vars

----------------------------------------------------------------------------
(* the factors of the rule-based score *)

(* the speed factor of a duration in minutes, in hundredths *)
Bucket(minutes) ==
    IF minutes <= 2 THEN 100
    ELSE IF minutes <= 10 THEN 80
    ELSE IF minutes <= 30 THEN 60
    ELSE IF minutes <= 120 THEN 40
    ELSE 20

(* C34: _time_to_score returns the bucket value of a duration the text     *)
(* states (1.0 up to 2 minutes, 0.8 up to 10, 0.6 up to 30, 0.4 up to 2    *)
(* hours, 0.2 beyond) and 0.5 for a text that states none; in particular   *)
(* for every time_to_effect string of the shipped catalog.                 *)
C34_SpeedFactorIsBucket ==
    args.fn = "_time_to_score" /\ out # NoResult
        => IF args.minutes = {}
           THEN out.score = 50
           ELSE \E m \in args.minutes : out.score = Bucket(m)

(* the tier a cost string names: its first word *)
Tier(cost) ==
    IF cost \in {"HIGH (replacement hardware cost)", "HIGH (bandwidth cost increases)"}
    THEN "HIGH"
    ELSE cost

(* C35: a playbook of the shipped catalog is scored with the cost factor   *)
(* the table assigns to its cost tier (FREE 1.0, LOW 0.9, MEDIUM 0.6, HIGH *)
(* 0.3): its score is the score of the same playbook whose cost is the     *)
(* bare tier name.                                                         *)
C35_CostFactorOfTier ==
    (/\ Scored
     /\ \E i \in DOMAIN ALL_PLAYBOOKS : args.playbook = ALL_PLAYBOOKS[i])
        => out.score = _score_playbook([args.playbook EXCEPT !.cost = Tier(@)],
                                       args.root_cause, args.confidence)

----------------------------------------------------------------------------
(* the options of the hybrid engine *)

(* C36: whatever the oracle replies, the options hybrid_recommend returns  *)
(* are playbooks of the (at most five) rule-based candidates handed to the *)
(* oracle, no playbook occurs twice, and there are at most top_n of them.  *)
C36_OptionsAreCandidates ==
    args.fn = "hybrid_recommend" /\ out # NoResult
        => LET candidates == recommend(args.catalog, args.root_cause,
                                       args.confidence, 5).options
           IN  /\ Len(candidates) <= 5
               /\ \A i \in DOMAIN out.options :
                     \E j \in DOMAIN candidates : candidates[j].id = out.options[i].id
               /\ \A i, j \in DOMAIN out.options :
                     i # j => out.options[i].id # out.options[j].id
               /\ Len(out.options) <= args.top_n

----------------------------------------------------------------------------
(* the audit trail *)

(* the step runs the gate node `node` *)
GateStep(node) ==
    /\ steps' = steps + 1
    /\ cp'.as_node = node

(* C37: a work step appends exactly one entry naming it, to history or to  *)
(* errors and never to both; a gate step appends nothing; so the two logs  *)
(* together are as long as the number of work steps executed since the     *)
(* workflow was started.                                                   *)
C37_OneAuditEntryPerWorkStep ==
    /\ [][\A n \in WorkNodes :
            WorkStep(n) => /\ RecordedSuccess(n) \/ RecordedFailure(n)
                           /\ ~(RecordedSuccess(n) /\ RecordedFailure(n))]_vars
    /\ [][\A n \in GateNodes :
            GateStep(n) => /\ cp'.st.history = cp.st.history
                           /\ cp'.st.errors = cp.st.errors
                           /\ workDone' = workDone]_vars
    /\ [](cp.exists => Len(cp.st.history) + Len(cp.st.errors) = workDone)

(* a gate was passed and work steps succeeded and failed: diagnose         *)
(* succeeded, recommend failed, generate_commands failed                   *)
C37_Witness ==
    /\ ~running
    /\ cp.next = "review_commands"
    /\ cp.st.history = <<"diagnose">>
    /\ Len(cp.st.errors) = 2
    /\ cp.st.errors[1].step = "recommend"
    /\ cp.st.errors[2].step = "generate_commands"
    /\ workDone = 3

----------------------------------------------------------------------------
(* decisions and the gates they are for *)

(* the operations that submit a decision for the gate `gate` *)
GateOps(gate) ==
    IF gate = "review_diagnosis" THEN DiagnosisOps ELSE {"approve_commands"}

(* C38: a resume made while the workflow waits at a gate, when the call    *)
(* before it was not a decision for that gate (so none was submitted since *)
(* the workflow arrived there), does not run a work step: the gate does    *)
(* not route to one on the flags and feedback it finds.                    *)
C38_StaleDecisionNotReused ==
    [][(/\ CallMade
        /\ last'.op = "resume"
        /\ cp.next \in GateNodes
        /\ last.op \notin GateOps(cp.next))
          => Edge(cp.next, human_review_node(cp.st)) \notin WorkNodes]_vars

(* C39: execute runs only in a state in which the diagnosis and the        *)
(* commands are both approved; a diagnosis decision approved=false that    *)
(* was recorded while the workflow waited at review_commands keeps a later *)
(* approval of the commands from reaching execute.                         *)
C39_ExecuteNeedsBothApprovals ==
    [][WorkStep("execute")
          => /\ loop.st.diagnosis_approved
             /\ loop.st.commands_approved]_vars

(* C40: a start for an incident id whose workflow already has a checkpoint *)
(* keeps the audit trail: the history, approvals and errors entries        *)
(* recorded before are still there, in their places, afterwards.           *)
C40_SecondStartKeepsAuditTrail ==
    [][(CallMade /\ last'.op = "start" /\ cp.exists)
          => /\ IsPrefix(cp.st.history, cp'.st.history)
             /\ IsPrefix(cp.st.approvals, cp'.st.approvals)
             /\ IsPrefix(cp.st.errors, cp'.st.errors)]_vars

====
